---------------------------- MODULE Spec2Model ----------------------------
(***************************************************************************)
(* Model of src/lib/actions/general.action.ts: the feedback generator      *)
(* createFeedback and the readers/listers over the "interviews" and        *)
(* "feedback" collections of the document store.                           *)
(*                                                                         *)
(* createFeedback is an async function: it suspends at                     *)
(*   await generateObject(...)      (line 34)                              *)
(*   await feedbackRef.set(...)     (lines 79 and 120)                     *)
(* and several invocations may be in flight at once, so each invocation is *)
(* a process whose steps are the code between two awaits.                  *)
(*                                                                         *)
(* JavaScript values are encoded with one TLA+ type per field: an absent   *)
(* (undefined) string is the marker Undefined, an absent object is the     *)
(* empty sequence and a present one a one-element sequence.                *)
(***************************************************************************)
EXTENDS Naturals, Sequences, FiniteSets

VARIABLES
    feedback,     \* the "feedback" collection: a set of [id, data] documents
    interviews,   \* the "interviews" collection: a set of [id, data] documents
    calls,        \* the createFeedback invocations, by call slot
    now,          \* the clock read by new Date()
    autoIds,      \* how many identifiers doc() has generated so far
    applied,      \* history: the calls whose set() reached the store, in order
    lastRead      \* the last listing call: its parameters and what it returned

vars == <<feedback, interviews, calls, now, autoIds, applied, lastRead>>

-----------------------------------------------------------------------------
(* Bounds of the model *)

\* createFeedback invocations in one behaviour
MaxCalls == 2
\* last value of the clock
MaxTime == 1
\* documents in the interviews collection
MaxInterviews == 3
\* largest limit passed to getLatestInterviews
MaxLimit == 2
\* documents in the feedback collection the feedback reader is run over
MaxFeedbackDocs == 2

Calls == 1..MaxCalls

-----------------------------------------------------------------------------
(* Inputs *)

\* JavaScript's undefined, for an optional string that is absent
Undefined == "undefined"

InterviewIds == {"i1", "i2"}
UserIds == {"u1", "u2"}
\* params.feedbackId: absent, the empty string (falsy), or an explicit id
ExplicitIds == {"f1", "f2"}
FeedbackIdParams == {Undefined, ""} \cup ExplicitIds
\* params.transcript: an array of {role, content}, as the parameter type
\* declares it (line 13 reads transcript.length before the check of line 17)
Transcripts ==
    { <<>>,
      << [role |-> "assistant", content |-> "Tell me about yourself"],
         [role |-> "user", content |-> "I am a backend engineer"] >> }

\* identifiers generated by db.collection("feedback").doc(): pairwise
\* distinct and distinct from every caller-supplied identifier
AutoIdPool == <<"auto1", "auto2", "auto3", "auto4", "auto5", "auto6",
                "auto7", "auto8">>

\* error.message of the error a rejected set() throws
StoreErrorMessage == "store write failed"

-----------------------------------------------------------------------------
(* The Evaluation Service: generateObject with feedbackSchema *)

CategoryNames ==
    << "Communication Skills", "Technical Knowledge", "Problem Solving",
       "Cultural & Role Fit", "Confidence & Clarity" >>

ScoredCategories(s) ==
    [k \in 1..5 |-> [name |-> CategoryNames[k], score |-> s,
                     comment |-> "model comment"]]

\* the objects generateObject can resolve to: it validates the model's
\* answer against feedbackSchema and throws otherwise
FeedbackSchemaObjects ==
    { [totalScore |-> 82, categoryScores |-> ScoredCategories(80),
       strengths |-> <<"Clear communication">>,
       areasForImprovement |-> <<"More examples">>,
       finalAssessment |-> "Solid candidate."],
      [totalScore |-> 100, categoryScores |-> ScoredCategories(100),
       strengths |-> <<"Everything">>,
       areasForImprovement |-> <<>>,
       finalAssessment |-> "Perfect candidate."] }

-----------------------------------------------------------------------------
(* createFeedback: the records it builds *)

FallbackScore == 75

\* mutant: the record keeps the interviewId in the userId field
FeedbackWrongUser(iId, uId, object, createdAt) ==
    [interviewId |-> iId,
     userId |-> iId,
     totalScore |-> object.totalScore,
     categoryScores |-> object.categoryScores,
     strengths |-> object.strengths,
     areasForImprovement |-> object.areasForImprovement,
     finalAssessment |-> object.finalAssessment,
     createdAt |-> createdAt]

\* lines 58-67: the feedback object built from the service's answer
Feedback(iId, uId, object, createdAt) ==
    [interviewId |-> iId,
     userId |-> uId,
     totalScore |-> object.totalScore,
     categoryScores |-> object.categoryScores,
     strengths |-> object.strengths,
     areasForImprovement |-> object.areasForImprovement,
     finalAssessment |-> object.finalAssessment,
     createdAt |-> createdAt]

\* mutant: the fallback record lacks the last category
FallbackFeedbackFourCategories(iId, uId, createdAt) ==
    [interviewId |-> iId,
     userId |-> uId,
     totalScore |-> FallbackScore,
     categoryScores |->
        [k \in 1..4 |-> [name |-> CategoryNames[k], score |-> FallbackScore,
                         comment |-> "comment"]],
     strengths |-> <<"Clear communication", "Technical knowledge",
                     "Problem-solving approach">>,
     areasForImprovement |-> <<"Could provide more specific examples",
                               "Further depth in technical explanations would be beneficial">>,
     finalAssessment |-> "The candidate performed well in the interview overall.",
     createdAt |-> createdAt]

\* mutant: the fallback record keeps the interviewId in the userId field
FallbackFeedbackWrongUser(iId, uId, createdAt) ==
    [interviewId |-> iId,
     userId |-> iId,
     totalScore |-> FallbackScore,
     categoryScores |-> ScoredCategories(FallbackScore),
     strengths |-> <<"Clear communication", "Technical knowledge",
                     "Problem-solving approach">>,
     areasForImprovement |-> <<"Could provide more specific examples",
                               "Further depth in technical explanations would be beneficial">>,
     finalAssessment |-> "The candidate performed well in the interview overall.",
     createdAt |-> createdAt]

\* lines 87-109: the fallback feedback object
FallbackFeedback(iId, uId, createdAt) ==
    [interviewId |-> iId,
     userId |-> uId,
     totalScore |-> FallbackScore,
     categoryScores |->
        << [name |-> "Communication Skills", score |-> FallbackScore,
            comment |-> "Good communication skills overall. The candidate expressed ideas clearly."],
           [name |-> "Technical Knowledge", score |-> FallbackScore,
            comment |-> "Demonstrated solid technical knowledge in the relevant areas."],
           [name |-> "Problem Solving", score |-> FallbackScore,
            comment |-> "Showed good problem-solving abilities and analytical thinking."],
           [name |-> "Cultural & Role Fit", score |-> FallbackScore,
            comment |-> "Appears to be a good fit for the role based on responses."],
           [name |-> "Confidence & Clarity", score |-> FallbackScore,
            comment |-> "Presented ideas with confidence and clarity throughout the interview."] >>,
     strengths |->
        << "Clear communication", "Technical knowledge",
           "Problem-solving approach" >>,
     areasForImprovement |->
        << "Could provide more specific examples",
           "Further depth in technical explanations would be beneficial" >>,
     finalAssessment |-> "The candidate performed well in the interview overall. They demonstrated good communication skills and technical knowledge. Some areas for improvement include providing more specific examples and deepening technical explanations.",
     createdAt |-> createdAt]

-----------------------------------------------------------------------------
(* The document store *)

\* the documents of collection coll at identifier id
DocsAt(coll, id) == {d \in coll : d.id = id}

\* mutant: set() adds a document and keeps the one already there
SetAppend(coll, id, data) == coll \cup {[id |-> id, data |-> data]}

\* mutant: set() leaves a document that already exists as it is
SetCreateOnly(coll, id, data) ==
    IF \E d \in coll : d.id = id THEN coll
    ELSE coll \cup {[id |-> id, data |-> data]}

\* mutant: set() drops every other document of the collection
SetClearsOthers(coll, id, data) == {[id |-> id, data |-> data]}

\* DocumentReference.set(data): create the document or overwrite it
Set(coll, id, data) ==
    {d \in coll : d.id # id} \cup {[id |-> id, data |-> data]}

\* the values new Date() can give: the clock never runs backwards
ClockReads == {t \in {now, now + 1} : t <= MaxTime}

\* mutant: the length test never holds
TranscriptEmptyNegative(transcript) == Len(transcript) < 0

\* line 17: !transcript || transcript.length === 0
TranscriptEmpty(transcript) == Len(transcript) = 0

\* lines 72 and 113: if (feedbackId), the truthiness of a string
Truthy(s) == s # Undefined /\ s # ""

-----------------------------------------------------------------------------
(* createFeedback: one invocation *)

NoResult ==
    [state |-> "pending", success |-> FALSE, feedbackId |-> Undefined,
     error |-> Undefined]

Returned(success, feedbackId, error) ==
    [state |-> "returned", success |-> success, feedbackId |-> feedbackId,
     error |-> error]

IdleCall ==
    [pc |-> "idle",
     interviewId |-> Undefined, userId |-> Undefined,
     transcript |-> <<>>, feedbackId |-> Undefined,
     object |-> <<>>,         \* the service's answer, once it has answered
     aiFailed |-> FALSE,      \* generateObject threw
     feedbackRef |-> Undefined, \* feedbackRef.id of the last reference made
     data |-> <<>>,           \* the record handed to the last set()
     evals |-> 0,             \* generateObject invocations
     writes |-> 0,            \* set() invocations
     writeFails |-> 0,        \* set() invocations that threw
     after |-> {},            \* the calls that had returned when this began
     result |-> NoResult]

\* mutant: doc() hands out the same identifier every time
FeedbackRefIdReused(feedbackId, n) ==
    IF Truthy(feedbackId) THEN feedbackId ELSE AutoIdPool[1]

\* mutant: doc() hands out the identifier it handed out last
FeedbackRefIdPrevious(feedbackId, n) ==
    IF Truthy(feedbackId) THEN feedbackId
    ELSE AutoIdPool[IF n = 0 THEN 1 ELSE n]

\* lines 72-76 and 113-117: the reference the record is written to
FeedbackRefId(feedbackId, n) ==
    IF Truthy(feedbackId) THEN feedbackId ELSE AutoIdPool[n + 1]

AutoIdsAfter(feedbackId, n) == IF Truthy(feedbackId) THEN n ELSE n + 1

\* lines 9-53: the call begins, validates the transcript and, when it is not
\* empty, invokes the Evaluation Service
Begin(c) ==
    /\ calls[c].pc = "idle"
    /\ \A b \in Calls : b < c => calls[b].pc # "idle"
    /\ \E iId \in InterviewIds, uId \in UserIds, t \in Transcripts,
          fId \in FeedbackIdParams :
          LET started == [calls[c] EXCEPT
                            !.interviewId = iId, !.userId = uId,
                            !.transcript = t, !.feedbackId = fId,
                            !.after = {b \in Calls : calls[b].pc = "done"}]
          IN calls' = [calls EXCEPT ![c] =
                IF TranscriptEmpty(t)
                THEN [started EXCEPT
                        !.pc = "done",
                        !.result = Returned(FALSE, Undefined, "Empty transcript")]
                ELSE [started EXCEPT !.pc = "generateObject", !.evals = @ + 1]]
    /\ UNCHANGED <<feedback, lastRead, interviews, now, autoIds, applied>>

\* lines 55-79: generateObject resolved; the record is built and set() issued
ObjectGenerated(c) ==
    /\ calls[c].pc = "generateObject"
    /\ \E object \in FeedbackSchemaObjects, t \in ClockReads :
          /\ now' = t
          /\ calls' = [calls EXCEPT ![c] = [calls[c] EXCEPT
                !.pc = "set",
                !.object = <<object>>,
                !.data = <<Feedback(calls[c].interviewId, calls[c].userId,
                                    object, t)>>,
                !.feedbackRef = FeedbackRefId(calls[c].feedbackId, autoIds),
                !.writes = @ + 1]]
    /\ autoIds' = AutoIdsAfter(calls[c].feedbackId, autoIds)
    /\ UNCHANGED <<feedback, lastRead, interviews, applied>>

\* lines 83-120: the inner catch builds the fallback record and issues set()
CatchAiError(call, t) ==
    [call EXCEPT
        !.pc = "setFallback",
        !.data = <<FallbackFeedback(call.interviewId, call.userId, t)>>,
        !.feedbackRef = FeedbackRefId(call.feedbackId, autoIds),
        !.writes = @ + 1]

\* mutant: a failed evaluation is reported to the caller and nothing is written
ObjectFailedSurfaced(c) ==
    /\ calls[c].pc = "generateObject"
    /\ calls' = [calls EXCEPT ![c] = [calls[c] EXCEPT
            !.pc = "done",
            !.aiFailed = TRUE,
            !.result = Returned(FALSE, Undefined, StoreErrorMessage)]]
    /\ UNCHANGED <<feedback, lastRead, interviews, now, autoIds, applied>>

\* line 34 throws: generateObject rejected (schema violation, transport
\* error, timeout); control enters the inner catch
ObjectFailed(c) ==
    /\ calls[c].pc = "generateObject"
    /\ \E t \in ClockReads :
          /\ now' = t
          /\ calls' = [calls EXCEPT ![c] =
                CatchAiError([calls[c] EXCEPT !.aiFailed = TRUE], t)]
    /\ autoIds' = AutoIdsAfter(calls[c].feedbackId, autoIds)
    /\ UNCHANGED <<feedback, lastRead, interviews, applied>>

\* lines 79-82: the store applied the write and set() resolved
SetDone(c) ==
    /\ calls[c].pc = "set"
    /\ feedback' = Set(feedback, calls[c].feedbackRef, calls[c].data[1])
    /\ applied' = Append(applied, c)
    /\ calls' = [calls EXCEPT ![c] = [calls[c] EXCEPT
            !.pc = "done",
            !.result = Returned(TRUE, calls[c].feedbackRef, Undefined)]]
    /\ UNCHANGED <<lastRead, interviews, now, autoIds>>

\* mutant: a rejected write sends the call back to the Evaluation Service
SetFailedRetries(c) ==
    /\ calls[c].pc = "set"
    /\ calls[c].evals < 3
    /\ calls' = [calls EXCEPT ![c] = [calls[c] EXCEPT
            !.pc = "generateObject",
            !.writeFails = @ + 1,
            !.evals = @ + 1]]
    /\ UNCHANGED <<feedback, lastRead, interviews, now, autoIds, applied>>

\* line 79 throws: the store rejected the write; the throw is inside the
\* inner try, so control enters the inner catch (line 83)
SetFailed(c) ==
    /\ calls[c].pc = "set"
    /\ \E t \in ClockReads :
          /\ now' = t
          /\ calls' = [calls EXCEPT ![c] =
                CatchAiError([calls[c] EXCEPT !.writeFails = @ + 1], t)]
    /\ autoIds' = AutoIdsAfter(calls[c].feedbackId, autoIds)
    /\ UNCHANGED <<feedback, lastRead, interviews, applied>>

\* lines 120-123: the store applied the fallback write
SetFallbackDone(c) ==
    /\ calls[c].pc = "setFallback"
    /\ feedback' = Set(feedback, calls[c].feedbackRef, calls[c].data[1])
    /\ applied' = Append(applied, c)
    /\ calls' = [calls EXCEPT ![c] = [calls[c] EXCEPT
            !.pc = "done",
            !.result = Returned(TRUE, calls[c].feedbackRef, Undefined)]]
    /\ UNCHANGED <<lastRead, interviews, now, autoIds>>

\* line 120 throws: the outer catch (lines 125-131) reports the failure
SetFallbackFailed(c) ==
    /\ calls[c].pc = "setFallback"
    /\ calls' = [calls EXCEPT ![c] = [calls[c] EXCEPT
            !.pc = "done",
            !.writeFails = @ + 1,
            !.result = Returned(FALSE, Undefined, StoreErrorMessage)]]
    /\ UNCHANGED <<feedback, lastRead, interviews, now, autoIds, applied>>

-----------------------------------------------------------------------------
(* The interviews collection and getLatestInterviews *)

InterviewDocIds == <<"v1", "v2", "v3", "v4", "v5">>

\* the finalized field of an interview document: the booleans true and
\* false, or no such field
FinalizedValues == {"true", "false", "undefined"}

CreatedAtValues == {1, 2}

\* the data of an interview document, as far as this code reads it
InterviewData ==
    [userId : UserIds, finalized : FinalizedValues, createdAt : CreatedAtValues]

\* the contents the interviews collection can have: up to MaxInterviews
\* documents, each under its own identifier
InterviewStores ==
    UNION { { {[id |-> InterviewDocIds[k], data |-> f[k]] : k \in 1..n} :
                f \in [1..n -> InterviewData] } : n \in 0..MaxInterviews }

\* .orderBy("createdAt", "desc"): the orders the store can return the
\* documents in; documents created at the same time come in either order
OrderByCreatedAtDesc(coll) ==
    {s \in [1..Cardinality(coll) -> coll] :
        /\ \A j, k \in 1..Cardinality(coll) : j # k => s[j] # s[k]
        /\ \A j, k \in 1..Cardinality(coll) :
              j < k => s[j].data.createdAt >= s[k].data.createdAt}

\* mutant: the query has no limit
LimitNone(docs, n) == docs

\* .limit(n): the first n documents of the ordered result
Limit(docs, n) == SubSeq(docs, 1, IF n < Len(docs) THEN n ELSE Len(docs))

\* line 162: const { userId, limit = 20 } = params
DefaultLimit == 20

\* params.limit: absent (the empty sequence) or a number
LimitParams == {<<>>} \cup {<<n>> : n \in 0..MaxLimit}
\* params.userId: absent, the empty string, or a user
UserIdParams == {Undefined, ""} \cup UserIds

LimitOf(limit) == IF limit = <<>> THEN DefaultLimit ELSE limit[1]

\* mutant: the filter forgets the owner
KeptAnyOwner(doc, userId) == doc.data.finalized = "true"

\* lines 173-177: the in-memory filter
Kept(doc, userId) ==
    IF Truthy(userId)
    THEN doc.data.finalized = "true" /\ doc.data.userId # userId
    ELSE doc.data.finalized = "true"

\* Array.prototype.filter: the elements satisfying Test, in order
RECURSIVE Filter(_, _)
Filter(docs, userId) ==
    IF docs = <<>> THEN <<>>
    ELSE IF Kept(Head(docs), userId)
         THEN <<Head(docs)>> \o Filter(Tail(docs), userId)
         ELSE Filter(Tail(docs), userId)

\* lines 182-185: { id: doc.id, ...doc.data() }
InterviewOf(doc) ==
    [id |-> doc.id, userId |-> doc.data.userId,
     finalized |-> doc.data.finalized, createdAt |-> doc.data.createdAt]

\* lines 166-185: what getLatestInterviews returns when the query resolved
\* with the ordered documents docs
LatestInterviews(docs, userId, limit) ==
    LET fetched == Limit(docs, LimitOf(limit) * 2)
        filteredDocs == Filter(fetched, userId)
        limitedDocs == SubSeq(filteredDocs, 1,
                          IF LimitOf(limit) < Len(filteredDocs)
                          THEN LimitOf(limit) ELSE Len(filteredDocs))
    IN [k \in 1..Len(limitedDocs) |-> InterviewOf(limitedDocs[k])]

\* what a reader call left: its parameters, the queries it issued, whether
\* the store failed, and whether it threw or what it returned
ReadOf(op, userId, id, limit, queries, failed, outcome) ==
    [op |-> op, userId |-> userId, id |-> id, limit |-> limit,
     queries |-> queries, failed |-> failed,
     threw |-> outcome.threw, result |-> outcome.result]

NoRead ==
    ReadOf("none", Undefined, Undefined, <<>>, 0, FALSE,
           [threw |-> FALSE, result |-> <<>>])

\* a reader returned value
ReturnValue(value) == [threw |-> FALSE, result |-> value]

\* a reader's promise rejected with the store's error
Rejected == [threw |-> TRUE, result |-> <<>>]

\* lines 186-189: catch (error) { ...; return []; }
CatchLatest == ReturnValue(<<>>)

\* lines 159-190: one call of getLatestInterviews; the query either resolves
\* with a snapshot of the collection or throws, and then the catch returns [].
\* The function keeps no state between calls: a behaviour holds one call.
GetLatestInterviews ==
    /\ lastRead.op = "none"
    /\ \/ \E docs \in OrderByCreatedAtDesc(interviews) :
            \E userId \in UserIdParams, limit \in LimitParams :
                lastRead' = ReadOf("getLatestInterviews", userId, Undefined,
                              limit, 1, FALSE,
                              ReturnValue(LatestInterviews(docs, userId, limit)))
       \/ \E userId \in UserIdParams, limit \in LimitParams :
            lastRead' = ReadOf("getLatestInterviews", userId, Undefined,
                          limit, 1, TRUE, CatchLatest)
    /\ UNCHANGED <<feedback, interviews, calls, now, autoIds, applied>>

-----------------------------------------------------------------------------
(* getInterviewsByUserId *)

\* mutant: only an absent userId is caught, the empty string is not
UserIdMissingStrict(userId) == userId = Undefined

\* line 196: if (!userId)
UserIdMissing(userId) == ~Truthy(userId)

\* line 203: .where("userId", "==", userId)
WhereUserId(coll, userId) == {d \in coll : d.data.userId = userId}

\* mutant: the catch rethrows
CatchByUserRethrows == Rejected

\* lines 211-214: catch (error) { ...; return []; }
CatchByUser == ReturnValue(<<>>)

\* lines 207-210: the documents of the snapshot as interviews
InterviewsOf(docs) == [k \in 1..Len(docs) |-> InterviewOf(docs[k])]

\* lines 192-215: one call of getInterviewsByUserId
GetInterviewsByUserId ==
    /\ lastRead.op = "none"
    /\ \E userId \in UserIdParams :
          IF UserIdMissing(userId)
          THEN lastRead' = ReadOf("getInterviewsByUserId", userId, Undefined,
                             <<>>, 0, FALSE, ReturnValue(<<>>))
          ELSE \/ \E docs \in OrderByCreatedAtDesc(
                                  WhereUserId(interviews, userId)) :
                     lastRead' = ReadOf("getInterviewsByUserId", userId,
                                   Undefined, <<>>, 1, FALSE,
                                   ReturnValue(InterviewsOf(docs)))
               \/ lastRead' = ReadOf("getInterviewsByUserId", userId,
                                Undefined, <<>>, 1, TRUE, CatchByUser)
    /\ UNCHANGED <<feedback, interviews, calls, now, autoIds, applied>>

-----------------------------------------------------------------------------
(* getInterviewById *)

\* the identifiers getInterviewById is asked for: those the collection can
\* hold and one it never holds
LookupIds == {InterviewDocIds[k] : k \in 1..(MaxInterviews + 1)}

\* mutant: a failed read is reported as a missing document
InterviewReadFailedAsNull == ReturnValue(<<>>)

\* line 136: the await is in no try block, so the store's error rejects the
\* promise of getInterviewById
InterviewReadFailed == Rejected

\* line 138: interview.data(), which is absent for a missing document
InterviewDataOf(coll, id) ==
    IF \E d \in coll : d.id = id
    THEN <<(CHOOSE d \in coll : d.id = id).data>>
    ELSE <<>>

\* lines 135-139: one call of getInterviewById
GetInterviewById ==
    /\ lastRead.op = "none"
    /\ \E id \in LookupIds :
          \/ lastRead' = ReadOf("getInterviewById", Undefined, id, <<>>, 1,
                           FALSE, ReturnValue(InterviewDataOf(interviews, id)))
          \/ lastRead' = ReadOf("getInterviewById", Undefined, id, <<>>, 1,
                           TRUE, InterviewReadFailed)
    /\ UNCHANGED <<feedback, interviews, calls, now, autoIds, applied>>

-----------------------------------------------------------------------------
(* getFeedbackByInterviewId *)

\* mutant: the query matches the interview only
WhereInterviewOnly(coll, interviewId, userId) ==
    {d \in coll : d.data.interviewId = interviewId}

\* lines 146-149: .where("interviewId", "==", interviewId)
\*                .where("userId", "==", userId)
WhereInterviewAndUser(coll, interviewId, userId) ==
    {d \in coll : d.data.interviewId = interviewId /\ d.data.userId = userId}

\* line 156: { id: feedbackDoc.id, ...feedbackDoc.data() }
FeedbackOf(doc) ==
    [id |-> doc.id,
     interviewId |-> doc.data.interviewId,
     userId |-> doc.data.userId,
     totalScore |-> doc.data.totalScore,
     categoryScores |-> doc.data.categoryScores,
     strengths |-> doc.data.strengths,
     areasForImprovement |-> doc.data.areasForImprovement,
     finalAssessment |-> doc.data.finalAssessment,
     createdAt |-> doc.data.createdAt]

\* lines 146-156: the values getFeedbackByInterviewId can return when the
\* query resolves: null for an empty snapshot, and otherwise the one document
\* .limit(1) kept, which the query leaves to the store's order
FeedbackByInterviewId(coll, interviewId, userId) ==
    IF WhereInterviewAndUser(coll, interviewId, userId) = {}
    THEN {<<>>}
    ELSE {<<FeedbackOf(d)>> :
            d \in WhereInterviewAndUser(coll, interviewId, userId)}

\* lines 141-157: one call of getFeedbackByInterviewId; the await is in no
\* try block, so the store's error rejects the promise
GetFeedbackByInterviewId ==
    /\ lastRead.op = "none"
    /\ \E interviewId \in InterviewIds, userId \in UserIds :
          \/ \E value \in FeedbackByInterviewId(feedback, interviewId, userId) :
                lastRead' = ReadOf("getFeedbackByInterviewId", userId,
                              interviewId, <<>>, 1, FALSE, ReturnValue(value))
          \/ lastRead' = ReadOf("getFeedbackByInterviewId", userId,
                           interviewId, <<>>, 1, TRUE, Rejected)
    /\ UNCHANGED <<feedback, interviews, calls, now, autoIds, applied>>

-----------------------------------------------------------------------------
(* The specification of the readers *)

FeedbackDocIds == <<"f1", "f2", "auto1", "auto2">>

\* the records createFeedback writes, for every interview and user
FeedbackData ==
    {FallbackFeedback(i, u, 0) : i \in InterviewIds, u \in UserIds}
    \cup {Feedback(ids[1], ids[2], object, 0) :
            ids \in InterviewIds \X UserIds, object \in FeedbackSchemaObjects}

\* the contents the feedback collection can have: up to MaxFeedbackDocs
\* documents, each under its own identifier
FeedbackStores ==
    UNION { { {[id |-> FeedbackDocIds[k], data |-> f[k]] : k \in 1..n} :
                f \in [1..n -> FeedbackData] } : n \in 0..MaxFeedbackDocs }

\* the readers over every content of the collection they read: each reader
\* reads one collection, and the other one is empty meanwhile
InitList ==
    /\ \/ interviews \in InterviewStores /\ feedback = {}
       \/ interviews = {} /\ feedback \in FeedbackStores
    /\ calls = [c \in Calls |-> IdleCall]
    /\ now = 0
    /\ autoIds = 0
    /\ applied = <<>>
    /\ lastRead = NoRead

NextList ==
    \/ GetLatestInterviews
    \/ GetInterviewsByUserId
    \/ GetInterviewById
    \/ GetFeedbackByInterviewId

SpecList == InitList /\ [][NextList]_vars

\* the interviews collection the feedback generator runs beside
SampleInterviews ==
    { [id |-> "v1", data |-> [userId |-> "u1", finalized |-> "true",
                              createdAt |-> 1]],
      [id |-> "v2", data |-> [userId |-> "u2", finalized |-> "false",
                              createdAt |-> 2]] }

-----------------------------------------------------------------------------
(* The specification of the feedback generator *)

Init ==
    /\ feedback = {}
    /\ interviews = SampleInterviews
    /\ calls = [c \in Calls |-> IdleCall]
    /\ now = 0
    /\ autoIds = 0
    /\ applied = <<>>
    /\ lastRead = NoRead

Next ==
    \E c \in Calls :
        \/ Begin(c)
        \/ ObjectGenerated(c)
        \/ ObjectFailed(c)
        \/ SetDone(c)
        \/ SetFailed(c)
        \/ SetFallbackDone(c)
        \/ SetFallbackFailed(c)

Spec == Init /\ [][Next]_vars

-----------------------------------------------------------------------------
(* The specification of all five operations over stores that hold documents *)

\* a feedback collection with documents written before the behaviour begins
SampleFeedback ==
    { [id |-> "f1", data |-> FallbackFeedback("i1", "u1", 0)],
      [id |-> "f2", data |-> FallbackFeedback("i2", "u2", 0)] }

\* the invocation that runs beside the readers
FrameCalls == {c \in Calls : c = 1}

InitFrame ==
    /\ feedback = SampleFeedback
    /\ interviews = SampleInterviews
    /\ calls = [c \in Calls |-> IdleCall]
    /\ now = 0
    /\ autoIds = 0
    /\ applied = <<>>
    /\ lastRead = NoRead

\* one createFeedback invocation beside one read of any of the four readers
NextFrame ==
    \/ \E c \in FrameCalls :
          \/ Begin(c)
          \/ ObjectGenerated(c)
          \/ ObjectFailed(c)
          \/ SetDone(c)
          \/ SetFailed(c)
          \/ SetFallbackDone(c)
          \/ SetFallbackFailed(c)
    \/ GetLatestInterviews
    \/ GetInterviewsByUserId
    \/ GetInterviewById
    \/ GetFeedbackByInterviewId

SpecFrame == InitFrame /\ [][NextFrame]_vars

-----------------------------------------------------------------------------
(* Vocabulary of the properties *)

Done(c) == calls[c].pc = "done"

\* the call ran with a non-empty transcript, so validation passed
Validated(c) == calls[c].pc # "idle" /\ Len(calls[c].transcript) > 0

\* a feedbackId the caller supplied (present and not the empty string)
Explicit(id) == id # Undefined /\ id # ""

Succeeded(c) == Done(c) /\ calls[c].result.success

\* the document the call's last set() writes
StoredBy(c) == [id |-> calls[c].feedbackRef, data |-> calls[c].data[1]]

\* the positions of the history at which a write to id reached the store
WritesTo(id) == {k \in 1..Len(applied) : calls[applied[k]].feedbackRef = id}

\* the call whose write to id reached the store last
LastWriter(id) ==
    applied[CHOOSE k \in WritesTo(id) : \A j \in WritesTo(id) : j <= k]

\* c2 began after c1 had returned
Sequential(c1, c2) == c1 \in calls[c2].after

\* c1 and c2 overlapped in time
Concurrent(c1, c2) ==
    /\ c1 # c2
    /\ calls[c1].pc # "idle" /\ calls[c2].pc # "idle"
    /\ ~Sequential(c1, c2) /\ ~Sequential(c2, c1)

\* the fields the Evaluation Service returned, as a stored record carries them
CarriesObject(data, object) ==
    /\ data.totalScore = object.totalScore
    /\ data.categoryScores = object.categoryScores
    /\ data.strengths = object.strengths
    /\ data.areasForImprovement = object.areasForImprovement
    /\ data.finalAssessment = object.finalAssessment

\* the fixed fallback profile of the specification
IsFallbackProfile(data) ==
    /\ data.totalScore = 75
    /\ Len(data.categoryScores) = 5
    /\ \A k \in 1..Len(data.categoryScores) : data.categoryScores[k].score = 75
    /\ Len(data.strengths) = 3
    /\ Len(data.areasForImprovement) = 2

-----------------------------------------------------------------------------
(* C1 *)

\* C1 (as claimed): every createFeedback execution with a non-empty
\* transcript issues exactly one set() to the feedback collection, whatever
\* the outcomes of the Evaluation Service and of the store.
C1_ExactlyOneWrite ==
    \A c \in Calls : Done(c) /\ Validated(c) => calls[c].writes = 1

(* C2 *)

\* C2 (as claimed): a createFeedback execution in which a write to the
\* feedback collection failed returns success:false.
C2_WriteFailureSurfaced ==
    \A c \in Calls :
        Done(c) /\ Validated(c) /\ calls[c].writeFails > 0
            => ~calls[c].result.success

(* C3 *)

\* C3 (as claimed): when the Evaluation Service call succeeded and
\* createFeedback returned success:true, the document the call left at the
\* returned feedbackId carries the service's totalScore, categoryScores,
\* strengths, areasForImprovement and finalAssessment; the fallback record is
\* persisted only by executions whose Evaluation Service call failed.
C3_ServiceResultPersisted ==
    \A c \in Calls :
        Succeeded(c) /\ ~calls[c].aiFailed
        /\ LastWriter(calls[c].result.feedbackId) = c
            => \A d \in DocsAt(feedback, calls[c].result.feedbackId) :
                  CarriesObject(d.data, calls[c].object[1])

(* C4 *)

\* C4 (as claimed): whenever the Evaluation Service call failed, the call
\* returns success:true and the record it persisted is the fallback profile
\* with the call's interviewId and userId.
C4_FallbackAlwaysSucceeds ==
    \A c \in Calls :
        Done(c) /\ calls[c].aiFailed
            => /\ calls[c].result.success
               /\ IsFallbackProfile(calls[c].data[1])
               /\ calls[c].data[1].interviewId = calls[c].interviewId
               /\ calls[c].data[1].userId = calls[c].userId

\* C4 (amended): when the Evaluation Service call failed, exactly one write
\* is issued and it carries the fallback profile (totalScore 75, five
\* categories each scored 75, three strengths, two improvement areas) with
\* the call's interviewId and userId; if the store applies it the call
\* returns success:true with that document's id and the document holds that
\* record (until another call overwrites it), and if the store rejects it the
\* call returns success:false with the store's error message. The evaluation
\* failure itself is never what is reported.
C4_FallbackOnEvaluationFailure ==
    \A c \in Calls :
        Done(c) /\ calls[c].aiFailed
            => /\ calls[c].writes = 1
               /\ IsFallbackProfile(calls[c].data[1])
               /\ calls[c].data[1].interviewId = calls[c].interviewId
               /\ calls[c].data[1].userId = calls[c].userId
               /\ calls[c].result.success <=> calls[c].writeFails = 0
               /\ calls[c].result.success
                    => /\ calls[c].result.feedbackId = calls[c].feedbackRef
                       /\ LastWriter(calls[c].feedbackRef) = c
                            => DocsAt(feedback, calls[c].feedbackRef)
                                 = {StoredBy(c)}
               /\ ~calls[c].result.success
                    => calls[c].result
                         = Returned(FALSE, Undefined, StoreErrorMessage)

\* C4 witness: a call whose evaluation failed has returned success:true and
\* its fallback record is the document at the returned id.
C4_Witness ==
    \E c \in Calls :
        /\ Succeeded(c) /\ calls[c].aiFailed
        /\ StoredBy(c) \in feedback
        /\ calls[c].result.feedbackId = calls[c].feedbackRef

(* C5 *)

\* C5: the step by which a call with an empty transcript begins is also the
\* step by which it returns {success: false, error: 'Empty transcript'}; in
\* that step the Evaluation Service is not invoked, no set() is issued and
\* the feedback collection is left as it was.
C5_EmptyTranscriptFailsFast ==
    [][\A c \in Calls :
          calls[c].pc = "idle" /\ calls'[c].pc # "idle"
          /\ Len(calls'[c].transcript) = 0
              => /\ calls'[c].pc = "done"
                 /\ calls'[c].result
                      = Returned(FALSE, Undefined, "Empty transcript")
                 /\ calls'[c].evals = 0
                 /\ calls'[c].writes = 0
                 /\ feedback' = feedback
                 /\ applied' = applied]_vars

\* C5 witness: a call with an empty transcript has returned while the
\* feedback collection holds a document.
C5_Witness ==
    \E c \in Calls :
        /\ Done(c) /\ Len(calls[c].transcript) = 0
        /\ ~calls[c].result.success
        /\ feedback # {}

(* C6 *)

\* C6 (as claimed): every call with a non-empty transcript returns
\* success:true with a non-empty feedbackId, and exactly one document exists
\* at that id, with a totalScore in 0..100 and exactly 5 categoryScores.
C6_AlwaysSucceeds ==
    \A c \in Calls :
        Done(c) /\ Validated(c)
            => /\ calls[c].result.success
               /\ Explicit(calls[c].result.feedbackId)
               /\ Cardinality(DocsAt(feedback, calls[c].result.feedbackId)) = 1
               /\ \A d \in DocsAt(feedback, calls[c].result.feedbackId) :
                     /\ d.data.totalScore \in 0..100
                     /\ Len(d.data.categoryScores) = 5

\* C6 (amended): a call with a non-empty transcript returns success:true
\* exactly when the last set() it issued was applied by the store; it then
\* returns a non-empty feedbackId, and exactly one document exists at that
\* id, with a totalScore in 0..100 and exactly 5 categoryScores. When the
\* store rejected its last set() it returns success:false.
C6_SucceedsWhenStored ==
    \A c \in Calls :
        Done(c) /\ Validated(c)
            => /\ calls[c].result.success
                    <=> calls[c].writeFails < calls[c].writes
               /\ calls[c].result.success
                    => /\ Explicit(calls[c].result.feedbackId)
                       /\ Cardinality(DocsAt(feedback,
                                       calls[c].result.feedbackId)) = 1
                       /\ \A d \in DocsAt(feedback,
                                           calls[c].result.feedbackId) :
                             /\ d.data.totalScore \in 0..100
                             /\ Len(d.data.categoryScores) = 5

\* C6 witness: a call on the evaluation path has returned success:true and
\* its own record is the one document at the returned id.
C6_Witness ==
    \E c \in Calls :
        /\ Succeeded(c) /\ Validated(c) /\ ~calls[c].aiFailed
        /\ calls[c].writeFails = 0
        /\ DocsAt(feedback, calls[c].result.feedbackId) = {StoredBy(c)}

(* C7 *)

\* the calls other than c1 and c2 never wrote to id
OnlyWriters(c1, c2, id) ==
    \A c3 \in Calls \ {c1, c2} : calls[c3].feedbackRef # id

\* c2 ran after c1 had returned, both with non-empty transcripts and the
\* same explicit feedbackId, and both have returned
SequentialPair(c1, c2) ==
    /\ Done(c1) /\ Done(c2) /\ Sequential(c1, c2)
    /\ Validated(c1) /\ Validated(c2)
    /\ Explicit(calls[c1].feedbackId)
    /\ calls[c1].feedbackId = calls[c2].feedbackId
    /\ OnlyWriters(c1, c2, calls[c1].feedbackId)

\* C7 (as claimed): after two sequential calls with the same explicit
\* feedbackId exactly one document exists at that id and it is the record of
\* the second call.
C7_SecondCallOverwrites ==
    \A c1, c2 \in Calls :
        SequentialPair(c1, c2)
            => DocsAt(feedback, calls[c1].feedbackId) = {StoredBy(c2)}

\* C7 (amended): after two sequential calls with the same explicit
\* feedbackId at most one document exists at that id (overwrite, not
\* append): the record of the second call if the second call returned
\* success:true, otherwise the record the first call left, if it left one.
C7_Idempotence ==
    \A c1, c2 \in Calls :
        SequentialPair(c1, c2)
            => DocsAt(feedback, calls[c1].feedbackId)
                 = IF calls[c2].result.success THEN {StoredBy(c2)}
                   ELSE IF calls[c1].result.success THEN {StoredBy(c1)}
                   ELSE {}

\* C7 witness: both sequential calls returned success:true with different
\* records, and the one document at the id is the second call's.
C7_Witness ==
    \E c1, c2 \in Calls :
        /\ SequentialPair(c1, c2)
        /\ Succeeded(c1) /\ Succeeded(c2)
        /\ StoredBy(c1) # StoredBy(c2)
        /\ calls[c1].aiFailed /\ ~calls[c2].aiFailed
        /\ DocsAt(feedback, calls[c1].feedbackId) = {StoredBy(c2)}

(* C8 *)

\* c1 and c2 overlapped, both with non-empty transcripts and the same
\* explicit feedbackId, and both have returned
ConcurrentPair(c1, c2) ==
    /\ Done(c1) /\ Done(c2) /\ Concurrent(c1, c2)
    /\ Validated(c1) /\ Validated(c2)
    /\ Explicit(calls[c1].feedbackId)
    /\ calls[c1].feedbackId = calls[c2].feedbackId
    /\ OnlyWriters(c1, c2, calls[c1].feedbackId)

\* C8 (as claimed): once two concurrent calls with the same explicit
\* feedbackId have returned, exactly one document exists at that id, and it
\* is the record of the call whose write reached the store last.
C8_ExactlyOneLastWriteWins ==
    \A c1, c2 \in Calls :
        ConcurrentPair(c1, c2)
            => /\ WritesTo(calls[c1].feedbackId) # {}
               /\ DocsAt(feedback, calls[c1].feedbackId)
                    = {StoredBy(LastWriter(calls[c1].feedbackId))}

\* C8 (amended): once two concurrent calls with the same explicit feedbackId
\* have returned, at most one document exists at that id: none if the store
\* rejected the writes of both, and otherwise exactly one, which is wholly
\* the record of the call whose write reached the store last; each call
\* whose write reached the store returned success:true with that id.
C8_LastWriteWins ==
    \A c1, c2 \in Calls :
        ConcurrentPair(c1, c2)
            => LET id == calls[c1].feedbackId
               IN /\ \A c \in {c1, c2} :
                        calls[c].result.success
                            <=> \E k \in WritesTo(id) : applied[k] = c
                  /\ \A c \in {c1, c2} :
                        calls[c].result.success
                            => calls[c].result.feedbackId = id
                  /\ DocsAt(feedback, id)
                       = IF WritesTo(id) = {} THEN {}
                         ELSE {StoredBy(LastWriter(id))}

\* C8 witness: two concurrent calls with the same explicit feedbackId both
\* returned success:true with that id, their records differ, and the
\* document is the record of the call that began first and wrote last.
C8_Witness ==
    \E c1, c2 \in Calls :
        /\ ConcurrentPair(c1, c2) /\ c1 < c2
        /\ Succeeded(c1) /\ Succeeded(c2)
        /\ calls[c1].result.feedbackId = calls[c2].result.feedbackId
        /\ StoredBy(c1) # StoredBy(c2)
        /\ LastWriter(calls[c1].feedbackId) = c1
        /\ DocsAt(feedback, calls[c1].feedbackId) = {StoredBy(c1)}

(* C9 *)

\* no other call was given the explicit feedbackId of c
OwnTarget(c) ==
    \A c2 \in Calls \ {c} :
        Explicit(calls[c].feedbackId)
            => calls[c2].feedbackId # calls[c].feedbackId

\* C9: whatever the interleaving, a call that returned success:true and
\* whose explicit feedbackId, if it has one, was given to no other call has
\* its own document at the returned id: the one document there holds the
\* call's interviewId and userId and the call's own result, the record built
\* from its Evaluation Service answer or its fallback record; no other call
\* has overwritten it.
C9_NoCrossTalk ==
    \A c \in Calls :
        Succeeded(c) /\ OwnTarget(c)
            => /\ DocsAt(feedback, calls[c].result.feedbackId) = {StoredBy(c)}
               /\ calls[c].result.feedbackId = calls[c].feedbackRef
               /\ calls[c].data[1].interviewId = calls[c].interviewId
               /\ calls[c].data[1].userId = calls[c].userId
               /\ \/ /\ ~calls[c].aiFailed /\ calls[c].writeFails = 0
                     /\ CarriesObject(calls[c].data[1], calls[c].object[1])
                  \/ /\ calls[c].aiFailed \/ calls[c].writeFails > 0
                     /\ IsFallbackProfile(calls[c].data[1])

\* C9 witness: two concurrent calls for different (interviewId, userId)
\* pairs, neither given a feedbackId, both returned success:true, and each
\* has its own document.
C9_Witness ==
    \E c1, c2 \in Calls :
        /\ Concurrent(c1, c2) /\ Succeeded(c1) /\ Succeeded(c2)
        /\ <<calls[c1].interviewId, calls[c1].userId>>
             # <<calls[c2].interviewId, calls[c2].userId>>
        /\ calls[c1].feedbackId = Undefined /\ calls[c2].feedbackId = Undefined
        /\ calls[c1].result.feedbackId # calls[c2].result.feedbackId
        /\ StoredBy(c1) \in feedback /\ StoredBy(c2) \in feedback

(* C10 *)

\* C10: whatever the interviews collection holds, whoever the excluded user
\* and whatever the limit, every interview getLatestInterviews returns is a
\* document of the collection whose finalized is true and, when an excluded
\* user is given, whose userId is not that user; it returns at most limit
\* items (at most 20 when no limit is given).
C10_LatestOnlyEligible ==
    lastRead.op = "getLatestInterviews"
        => /\ \A k \in 1..Len(lastRead.result) :
                /\ lastRead.result[k].finalized = "true"
                /\ lastRead.userId \in UserIds
                     => lastRead.result[k].userId # lastRead.userId
                /\ \E d \in interviews :
                     /\ d.id = lastRead.result[k].id
                     /\ d.data.finalized = "true"
                     /\ d.data.userId = lastRead.result[k].userId
           /\ lastRead.limit # <<>>
                => Len(lastRead.result) <= lastRead.limit[1]
           /\ lastRead.limit = <<>> => Len(lastRead.result) <= 20

\* C10 witness: with excluded user u1 and limit 1, over a collection holding
\* a finalized interview of u1 and two finalized interviews of u2, exactly
\* one interview, of u2, is returned.
C10_Witness ==
    /\ lastRead.op = "getLatestInterviews"
    /\ lastRead.userId = "u1" /\ lastRead.limit = <<1>>
    /\ Len(lastRead.result) = 1
    /\ lastRead.result[1].userId = "u2"
    /\ \E d \in interviews :
          d.data.userId = "u1" /\ d.data.finalized = "true"
    /\ \E d \in interviews :
          /\ d.data.userId = "u2" /\ d.data.finalized = "true"
          /\ d.id # lastRead.result[1].id

(* C11 *)

\* C11: getInterviewsByUserId called with an absent or an empty userId
\* returns the empty sequence and issues no query to the store.
C11_NoUserNoQuery ==
    lastRead.op = "getInterviewsByUserId"
    /\ (lastRead.userId = Undefined \/ lastRead.userId = "")
        => /\ ~lastRead.threw
           /\ lastRead.result = <<>>
           /\ lastRead.queries = 0

\* C11 witness: getInterviewsByUserId("") has returned over a collection
\* that holds interviews.
C11_Witness ==
    /\ lastRead.op = "getInterviewsByUserId"
    /\ lastRead.userId = ""
    /\ lastRead.result = <<>>
    /\ interviews # {}

(* C12 *)

\* C12: when the store query fails, getLatestInterviews and
\* getInterviewsByUserId return the empty sequence and do not throw.
C12_ListingDegradesToEmpty ==
    lastRead.op \in {"getLatestInterviews", "getInterviewsByUserId"}
    /\ lastRead.failed
        => ~lastRead.threw /\ lastRead.result = <<>>

\* C12 witness: the query of getInterviewsByUserId for a user who owns an
\* interview failed, and the call returned the empty sequence.
C12_Witness ==
    /\ lastRead.op = "getInterviewsByUserId"
    /\ lastRead.failed /\ lastRead.queries = 1
    /\ ~lastRead.threw /\ lastRead.result = <<>>
    /\ \E d \in interviews : d.data.userId = lastRead.userId

(* C13 *)

\* the feedback documents of the pair (i, u)
MatchingFeedback(i, u) ==
    {d \in feedback : d.data.interviewId = i /\ d.data.userId = u}

\* value is the identifier of document d together with its fields
IsIdPlusFields(value, d) ==
    /\ value.id = d.id
    /\ value.interviewId = d.data.interviewId
    /\ value.userId = d.data.userId
    /\ value.totalScore = d.data.totalScore
    /\ value.categoryScores = d.data.categoryScores
    /\ value.strengths = d.data.strengths
    /\ value.areasForImprovement = d.data.areasForImprovement
    /\ value.finalAssessment = d.data.finalAssessment
    /\ value.createdAt = d.data.createdAt

\* C13: when its query resolves, getFeedbackByInterviewId(interviewId,
\* userId) returns null if no feedback document matches both fields, and
\* otherwise the id plus fields of a document that matches both: the unique
\* match when there is one, one of the matches when there are several, never
\* a document of another interview or user.
C13_FeedbackOfThePair ==
    lastRead.op = "getFeedbackByInterviewId" /\ ~lastRead.failed
        => /\ ~lastRead.threw
           /\ MatchingFeedback(lastRead.id, lastRead.userId) = {}
                => lastRead.result = <<>>
           /\ MatchingFeedback(lastRead.id, lastRead.userId) # {}
                => /\ Len(lastRead.result) = 1
                   /\ \E d \in MatchingFeedback(lastRead.id, lastRead.userId) :
                         IsIdPlusFields(lastRead.result[1], d)

\* C13 witness: the collection holds a document of the pair asked for and a
\* document of the same interview and another user, and the call returned
\* the former.
C13_Witness ==
    /\ lastRead.op = "getFeedbackByInterviewId" /\ ~lastRead.failed
    /\ Len(lastRead.result) = 1
    /\ Cardinality(MatchingFeedback(lastRead.id, lastRead.userId)) = 1
    /\ \E d \in feedback :
          /\ d.data.interviewId = lastRead.id
          /\ d.data.userId # lastRead.userId

(* C15 *)

Eligible(d, userId) ==
    d.data.finalized = "true" /\ (userId \in UserIds => d.data.userId # userId)

\* the positions of the eligible documents among the first n of order s
EligibleAmong(s, n, userId) ==
    {k \in 1..Len(s) : k <= n /\ Eligible(s[k], userId)}

\* C17: when its query resolves, getLatestInterviews(userId, limit) returns
\* exactly the first limit eligible interviews among the 2 * limit most
\* recently created ones, in descending creation order (limit is 20 when
\* absent); so when more than limit of those 2 * limit interviews are
\* ineligible the result has fewer than limit items, whatever older
\* interviews the collection holds.
C17_FirstEligibleOfNewest ==
    lastRead.op = "getLatestInterviews" /\ ~lastRead.failed
        => \E s \in OrderByCreatedAtDesc(interviews) :
             LET limit == IF lastRead.limit = <<>> THEN 20
                          ELSE lastRead.limit[1]
                 eligible == EligibleAmong(s, 2 * limit, lastRead.userId)
                 fetched == {k \in 1..Len(s) : k <= 2 * limit}
             IN /\ Len(lastRead.result)
                     = IF Cardinality(eligible) < limit
                       THEN Cardinality(eligible) ELSE limit
                /\ \A j \in 1..Len(lastRead.result) :
                      \E k \in eligible :
                         /\ Cardinality({i \in eligible : i <= k}) = j
                         /\ lastRead.result[j].id = s[k].id
                         /\ lastRead.result[j].userId = s[k].data.userId
                         /\ lastRead.result[j].finalized = s[k].data.finalized
                         /\ lastRead.result[j].createdAt = s[k].data.createdAt
                /\ Cardinality(fetched \ eligible) > limit
                     => Len(lastRead.result) < limit

\* C17 witness: with limit 1 the two most recent interviews are both
\* ineligible, so nothing is returned although the collection holds an
\* older eligible interview.
C17_Witness ==
    /\ lastRead.op = "getLatestInterviews" /\ ~lastRead.failed
    /\ lastRead.limit = <<1>>
    /\ lastRead.result = <<>>
    /\ Cardinality(interviews) = 3
    /\ \E d \in interviews :
          /\ Eligible(d, lastRead.userId)
          /\ \A e \in interviews \ {d} :
                ~Eligible(e, lastRead.userId)
                /\ e.data.createdAt > d.data.createdAt

-----------------------------------------------------------------------------
(* C16 *)

\* C16: after validation passes, createFeedback returns success:false only
\* if a write to the store failed; and every execution that returns
\* success:false (empty transcript or write failure) has left no document:
\* none of its writes reached the feedback collection.
C16_FailureLeavesNothing ==
    \A c \in Calls :
        Done(c) /\ ~calls[c].result.success
            => /\ Validated(c) => calls[c].writeFails >= 1
               /\ ~Validated(c) => calls[c].writes = 0
               /\ \A k \in 1..Len(applied) : applied[k] # c
               /\ applied = <<>> => feedback = {}

\* C16 witness: a validated call returned success:false after a write
\* failure while another call's document is in the collection.
C16_Witness ==
    \E c, other \in Calls :
        /\ Done(c) /\ Validated(c) /\ ~calls[c].result.success
        /\ calls[c].writeFails >= 1
        /\ Succeeded(other)
        /\ feedback = {StoredBy(other)}

-----------------------------------------------------------------------------
(* C18 *)

\* C18: every createFeedback execution with a non-empty transcript invokes
\* the Evaluation Service exactly once, with no retry after a failure of the
\* evaluation or of a write, and the invocation has completed (answered or
\* failed) before any write to the feedback collection is issued.
C18_OneEvaluationBeforeWrites ==
    \A c \in Calls :
        /\ Validated(c) => calls[c].evals = 1
        /\ ~Validated(c) => calls[c].evals = 0
        /\ calls[c].pc = "generateObject" => calls[c].writes = 0
        /\ calls[c].writes > 0 => calls[c].object # <<>> \/ calls[c].aiFailed

\* C18 witness: the evaluation answered, the write of its record failed, and
\* the call finished on the fallback without a second evaluation.
C18_Witness ==
    \E c \in Calls :
        /\ Succeeded(c)
        /\ calls[c].object # <<>>
        /\ calls[c].writeFails = 1 /\ calls[c].writes = 2
        /\ calls[c].evals = 1

-----------------------------------------------------------------------------
(* C19 *)

\* the documents of the feedback collection coll for the pair (i, u)
FeedbackOfPair(coll, i, u) ==
    {d \in coll : d.data.interviewId = i /\ d.data.userId = u}

\* C19: a createFeedback call without a feedbackId never overwrites an
\* existing feedback document: the step in which such a call returns
\* success:true keeps every document and adds exactly one, under an
\* identifier no document had; so two such calls for the same
\* (interviewId, userId) leave two distinct documents for that pair.
C19_IdlessCallAddsDocument ==
    [][ /\ \A c \in Calls :
              ( /\ calls[c].pc # "done" /\ calls'[c].pc = "done"
                /\ calls'[c].result.success
                /\ ~Explicit(calls'[c].feedbackId) )
              => /\ feedback \subseteq feedback'
                 /\ Cardinality(feedback') = Cardinality(feedback) + 1
                 /\ \A d \in feedback : d.id # calls'[c].result.feedbackId
                 /\ \E d \in feedback' : d.id = calls'[c].result.feedbackId
        /\ \A c1, c2 \in Calls :
              ( /\ c1 # c2
                /\ calls'[c1].pc = "done" /\ calls'[c1].result.success
                /\ calls'[c2].pc = "done" /\ calls'[c2].result.success
                /\ ~Explicit(calls'[c1].feedbackId)
                /\ ~Explicit(calls'[c2].feedbackId)
                /\ calls'[c1].interviewId = calls'[c2].interviewId
                /\ calls'[c1].userId = calls'[c2].userId )
              => /\ calls'[c1].result.feedbackId # calls'[c2].result.feedbackId
                 /\ Cardinality(FeedbackOfPair(feedback', calls'[c1].interviewId,
                                                calls'[c1].userId)) >= 2
      ]_vars

\* C19 witness: two calls without a feedbackId, one after the other, for the
\* same pair have both succeeded and the pair has two documents.
C19_Witness ==
    \E c1, c2 \in Calls :
        /\ Sequential(c1, c2) /\ Succeeded(c1) /\ Succeeded(c2)
        /\ ~Explicit(calls[c1].feedbackId) /\ ~Explicit(calls[c2].feedbackId)
        /\ calls[c1].interviewId = calls[c2].interviewId
        /\ calls[c1].userId = calls[c2].userId
        /\ Cardinality(FeedbackOfPair(feedback, calls[c1].interviewId,
                                       calls[c1].userId)) = 2

-----------------------------------------------------------------------------
(* C20 *)

\* every document of the collection carries the interviewId and the userId
\* of the call whose write to its identifier reached the store last
PersistedCarriesIds ==
    \A d \in feedback :
        /\ WritesTo(d.id) # {}
        /\ d.data.interviewId = calls[LastWriter(d.id)].interviewId
        /\ d.data.userId = calls[LastWriter(d.id)].userId

\* calls c1 and c2 ran for different (interviewId, userId) pairs
OtherPair(c1, c2) ==
    <<calls[c1].interviewId, calls[c1].userId>>
        # <<calls[c2].interviewId, calls[c2].userId>>

\* getFeedbackByInterviewId for the pair of call c cannot return null
ReadableFor(c) ==
    \A value \in FeedbackByInterviewId(feedback, calls[c].interviewId,
                                        calls[c].userId) :
        /\ value # <<>>
        /\ value[1].interviewId = calls[c].interviewId
        /\ value[1].userId = calls[c].userId

\* c2 was invoked after c1 was: calls begin in the order of their numbers
BeganAfter(c1, c2) == c2 > c1 /\ calls[c2].pc # "idle"

\* C20 (as claimed): every persisted record carries the interviewId and
\* userId of its call; hence once createFeedback(interviewId, userId, ...)
\* has returned success:true, getFeedbackByInterviewId(interviewId, userId)
\* returns a non-null record in every later state, provided no later
\* createFeedback call reuses the same feedbackId for a different pair.
C20_ReadableUnlessLaterCallReuses ==
    /\ PersistedCarriesIds
    /\ \A c \in Calls :
          ( /\ Succeeded(c)
            /\ ~\E c2 \in Calls :
                  /\ BeganAfter(c, c2)
                  /\ calls[c2].feedbackId = calls[c].result.feedbackId
                  /\ OtherPair(c, c2) )
          => ReadableFor(c)

\* C20 (amended): every persisted record carries the interviewId and userId
\* of its call; once createFeedback has returned success:true,
\* getFeedbackByInterviewId for its pair returns a non-null record of that
\* pair in every later state in which no call for a different pair, invoked
\* later or earlier, has written to the same identifier after this call's
\* write.
C20_ReadableUnlessOverwritten ==
    /\ PersistedCarriesIds
    /\ \A c \in Calls :
          ( /\ Succeeded(c)
            /\ \A k, j \in WritesTo(calls[c].feedbackRef) :
                  applied[k] = c /\ j > k => ~OtherPair(c, applied[j]) )
          => ReadableFor(c)

\* C20 witness: two calls used the same feedbackId for different pairs; the
\* write of c reached the store last, and the feedback of c's pair is read
\* back on the fallback path.
C20_Witness ==
    \E c, c2 \in Calls :
        /\ Succeeded(c) /\ Succeeded(c2) /\ OtherPair(c, c2)
        /\ calls[c].aiFailed
        /\ calls[c2].feedbackRef = calls[c].feedbackRef
        /\ LastWriter(calls[c].feedbackRef) = c
        /\ ReadableFor(c)
        /\ FeedbackByInterviewId(feedback, calls[c].interviewId,
                                  calls[c].userId) # {}

-----------------------------------------------------------------------------
(* C14 *)

\* C14: a read (getInterviewById, getFeedbackByInterviewId,
\* getLatestInterviews, getInterviewsByUserId) leaves the interviews and the
\* feedback collections unchanged; a step of createFeedback leaves the
\* interviews collection unchanged and changes no feedback document other
\* than the one at its target identifier; no step deletes a document.
C14_Frame ==
    [][ /\ interviews' = interviews
        /\ \A d \in feedback : \E e \in feedback' : e.id = d.id
        /\ lastRead' # lastRead => feedback' = feedback
        /\ \A c \in Calls :
              calls'[c] # calls[c]
                => /\ \A d \in feedback :
                         d.id # calls'[c].feedbackRef => d \in feedback'
                   /\ \A e \in feedback' \ feedback :
                         e.id = calls'[c].feedbackRef
      ]_vars

\* C14 witness: createFeedback has overwritten the document at its target
\* identifier f1, a read has been made, and the other feedback document and
\* the interviews are as they were.
C14_Witness ==
    /\ Succeeded(1) /\ calls[1].feedbackId = "f1"
    /\ lastRead.op # "none"
    /\ StoredBy(1) \in feedback /\ StoredBy(1) \notin SampleFeedback
    /\ \E d \in SampleFeedback : d.id = "f2" /\ d \in feedback
    /\ Cardinality(feedback) = 2
    /\ interviews = SampleInterviews

=============================================================================
